---- MODULE Spec2Model ----
(***************************************************************************)
(* Model of m3u_generator.py: M3UGenerator.main (the cycle driver and the  *)
(* per data set pipeline) and the __main__ crash handler.                  *)
(*                                                                         *)
(* ChannelHandler, Config and Utils are modules of the repository that are *)
(* not part of the analysed sources; their calls are modelled by their     *)
(* documented contracts, with every outcome a call can have (any result,   *)
(* or an exception) left open.                                             *)
(***************************************************************************)
EXTENDS Integers, Sequences, FiniteSets, TLC

\* Longest channel list get_channel_list returns in the model.
MaxLen == 2

\* Channel fields the generator reads: x.get('name'), x.get('cat').
Names == {1, 2}
Cats == {1, 2}
Channel == [name : Names, cat : Cats]

\* Config.DATA_SETS: the configured data sets, in configuration order.
DATA_SETS ==
    << [OUT_FILE_NAME |-> "a.m3u", OUT_FILE_FIRST_LINE |-> "#EXTM3U a",
        CLEAN_FILTER |-> FALSE],
       [OUT_FILE_NAME |-> "b.m3u", OUT_FILE_FIRST_LINE |-> "#EXTM3U b",
        CLEAN_FILTER |-> TRUE] >>

DataSetNumbers == 1..Len(DATA_SETS)

\* No rules: the value of `rules` where the calls are left open.
NoRules == [remap |-> [c \in Cats |-> c], deny |-> {}]
FileNames == {DATA_SETS[n].OUT_FILE_NAME : n \in DataSetNumbers}

VARIABLES
    pc,                     \* the statement control is at
    online,                 \* environment: the network is reachable
    MAIL_ON_CRASH,          \* Config.MAIL_ON_CRASH
    PAUSE_ON_CRASH,         \* Config.PAUSE_ON_CRASH
    source,                 \* the listing of an unchanging source (SpecSame)
    rules,                  \* the rules of unchanging data sets (SpecSame)
    last_run,               \* per file: content and counts of its last completed run
    data_set_number,        \* main's local, 0 while unbound
    files,                  \* content of every output file, a sequence of lines
    out_file,               \* the open output file handles (by file name)
    channel_list,           \* main's local
    position,               \* the for loop's position in channel_list
    total_channel_count,    \* main's local
    allowed_channel_count,  \* main's local
    exit_status,            \* -1 while the process runs
    \* history, read by the properties only
    passed,                 \* per file: channels is_channel_allowed accepted since its open
    header_written,         \* per file: the opening invocation has written the first line
    fetches,                \* per data set: get_channel_list calls in this cycle
    done,                   \* data sets whose pipeline completed in this cycle
    crashed_at,             \* data set number the escaping failure came from, 0 if none
    crash_cause,            \* "none", "network" (no connectivity) or "other"
    crash_stage,            \* the statement that raised, "none" if none
    stages,                 \* the calls made so far for the current data set
    fetched_count,          \* size of the list get_channel_list returned for it
    data_set_sleeps,        \* sleep(Config.DATA_SET_DELAY) calls in this cycle
    update_sleeps,          \* sleep(Config.UPDATE_DELAY) calls in this cycle
    waits,                  \* Utils.wait_for_internet() returns in this cycle
    printed,                \* print_exc calls
    emails,                 \* Utils.send_email calls
    paused                  \* input() calls

vars == << pc, online, MAIL_ON_CRASH, PAUSE_ON_CRASH,
           data_set_number, files, out_file, channel_list, position,
           total_channel_count, allowed_channel_count, exit_status,
           passed, header_written, fetches, done, crashed_at, crash_cause,
           crash_stage, printed, emails, paused, stages, fetched_count,
           data_set_sleeps, update_sleeps, waits, source, rules, last_run >>

config == << MAIL_ON_CRASH, PAUSE_ON_CRASH >>
locals == << data_set_number, channel_list, position,
             total_channel_count, allowed_channel_count >>
counts == << total_channel_count, allowed_channel_count >>
handler_hist == << printed, emails, paused >>
crash_hist == << crashed_at, crash_cause, crash_stage >>
run_hist == << stages, fetched_count >>
cycle_hist == << data_set_sleeps, update_sleeps, waits >>
same == << source, rules, last_run >>

-----------------------------------------------------------------------------
(* Pure helpers *)

\* The data set the for loop of line 32 is at.
data_set == DATA_SETS[data_set_number]
out_file_name == data_set.OUT_FILE_NAME
\* The first line of the first data set, whatever the data set.
first_line_of_first_data_set == DATA_SETS[1].OUT_FILE_FIRST_LINE
out_file_first_line == data_set.OUT_FILE_FIRST_LINE

\* A line of an output file: the first line, or what write_entry appends.
FirstLine(text) == << "first_line", text >>
Entry(channel, name) == << "entry", name, channel.name, channel.cat >>

\* Results get_channel_list can return.
Listings == UNION {[1..n -> Channel] : n \in 0..MaxLen}

\* Results replace_categories can return for a list: category labels rewritten.
Remapped(list) ==
    {l \in [1..Len(list) -> Channel] : \A i \in 1..Len(list) : l[i].name = list[i].name}

\* list.sort(key=lambda x: x.get(key)): a stable sort.
\* An insertion sort; the sorted front is bound as a value, to be computed once.
RECURSIVE SortBy(_, _)
SortBy(list, key) ==
    IF list = << >> THEN << >>
    ELSE LET x == list[Len(list)]
             Insert(front) ==
                 LET p == Cardinality({i \in 1..Len(front) : front[i][key] <= x[key]})
                 IN  SubSeq(front, 1, p) \o << x >> \o SubSeq(front, p + 1, Len(front))
         IN  CHOOSE sorted \in
                 {Insert(front) : front \in {SortBy(SubSeq(list, 1, Len(list) - 1), key)}} : TRUE

\* Lines 50-51 in the wrong order: category first, then name.
sort_by_cat_then_name(list) == SortBy(SortBy(list, "cat"), "name")

\* Lines 50-51: sort by name, then by category.
sort_channel_list(list) == SortBy(SortBy(list, "name"), "cat")

\* What clean_filter can leave of a list: entries removed, the rest in place.
RECURSIVE Keep(_, _)
Keep(list, mask) ==
    IF list = << >> THEN << >>
    ELSE LET front == Keep(SubSeq(list, 1, Len(list) - 1),
                           [i \in 1..(Len(list) - 1) |-> mask[i]])
         IN  IF mask[Len(list)] THEN Append(front, list[Len(list)]) ELSE front

Cleaned(list) == {Keep(list, mask) : mask \in [1..Len(list) -> BOOLEAN]}

\* Deterministic rules of a data set: a category map and denied categories.
Rules == [remap : [Cats -> Cats], deny : SUBSET Cats]

\* replace_categories by a category map.
RemapBy(list, remap) ==
    [i \in 1..Len(list) |-> [name |-> list[i].name, cat |-> remap[list[i].cat]]]

\* clean_filter as the removal of every record equal to an earlier one.
Dedup(list) ==
    Keep(list, [i \in 1..Len(list) |-> \A j \in 1..(i - 1) : list[j] # list[i]])

\* is_channel_allowed by denied categories.
AllowedBy(channel, deny) == channel.cat \notin deny

\* What an output file can hold before the process starts.
StaleFiles == {<< >>, << << "entry", "stale", 1, 1 >> >>}

\* The lines of the entries of a sequence of channels, for file `name`.
Entries(channels, name) == [i \in 1..Len(channels) |-> Entry(channels[i], name)]

-----------------------------------------------------------------------------
(* Control points *)

\* Statements inside the with block of line 42.
InsideWith == {"write_first_line", "get_channel_list", "replace_categories", "sort",
               "clean_filter", "for_channel", "is_channel_allowed", "write_entry",
               "close"}

\* Statements of one data set's pipeline, lines 40-61.
Pipeline == {"makedirs", "open"} \cup InsideWith

\* Calls that can raise.
Failable == {"makedirs", "open", "write_first_line", "get_channel_list",
             "replace_categories", "clean_filter", "is_channel_allowed",
             "write_entry", "close"}

\* The __main__ handler, lines 86-97, and the end of the process.
Handler == {"print_exc", "send_email", "input", "exit", "terminated"}

Sleeps == {"data_set_sleep", "update_sleep"}

-----------------------------------------------------------------------------

Init ==
    /\ pc = "wait_for_internet"
    /\ online \in BOOLEAN
    /\ MAIL_ON_CRASH \in BOOLEAN
    /\ PAUSE_ON_CRASH \in BOOLEAN
    /\ data_set_number = 0
    /\ files = [f \in FileNames |-> << >>]
    /\ out_file = {}
    /\ channel_list = << >>
    /\ position = 0
    /\ total_channel_count = 0
    /\ allowed_channel_count = 0
    /\ exit_status = -1
    /\ passed = [f \in FileNames |-> << >>]
    /\ header_written = [f \in FileNames |-> FALSE]
    /\ fetches = [n \in DataSetNumbers |-> 0]
    /\ done = {}
    /\ crashed_at = 0
    /\ crash_cause = "none"
    /\ crash_stage = "none"
    /\ stages = << >>
    /\ fetched_count = 0
    /\ data_set_sleeps = 0
    /\ update_sleeps = 0
    /\ waits = 0
    /\ source = << >>
    /\ rules = NoRules
    /\ last_run = [f \in FileNames |-> << >>]
    /\ printed = 0
    /\ emails = 0
    /\ paused = 0

-----------------------------------------------------------------------------
(* The environment *)

\* The network goes down or comes back, at any moment of the process's life.
ToggleNet ==
    /\ pc # "terminated"
    /\ online' = ~online
    /\ UNCHANGED << pc, config, same, run_hist, cycle_hist, locals, files, out_file, exit_status, passed,
                    header_written, fetches, done, crash_hist, handler_hist >>

-----------------------------------------------------------------------------
(* M3UGenerator.main *)

\* Lines 26-30: Utils.wait_for_internet() returns once the network is reachable;
\* a new cycle starts with data_set_number = 0.
WaitForInternet ==
    /\ pc = "wait_for_internet"
    /\ online
    /\ pc' = "for_data_set"
    /\ data_set_number' = 0
    /\ fetches' = [n \in DataSetNumbers |-> 0]
    /\ done' = {}
    /\ waits' = waits + 1
    /\ UNCHANGED << data_set_sleeps, update_sleeps >>
    /\ UNCHANGED << online, config, same, run_hist, files, out_file, channel_list, position, counts,
                    exit_status, passed, header_written, crash_hist, handler_hist >>

\* The for loop starting over after the last data set, within the same cycle.
ForDataSetAgain ==
    /\ pc = "for_data_set"
    /\ data_set_number' = IF data_set_number < Len(DATA_SETS)
                          THEN data_set_number + 1 ELSE 1
    /\ pc' = "makedirs"
    /\ UNCHANGED << online, config, same, run_hist, cycle_hist, files, out_file, channel_list, position, counts,
                    exit_status, passed, header_written, fetches, done, crash_hist,
                    handler_hist >>

\* Lines 32-38: the for loop takes the next data set, or ends (lines 75-77).
ForDataSet ==
    /\ pc = "for_data_set"
    /\ IF data_set_number < Len(DATA_SETS)
       THEN /\ data_set_number' = data_set_number + 1
            /\ pc' = "makedirs"
            /\ update_sleeps' = update_sleeps
       ELSE /\ data_set_number' = data_set_number
            /\ pc' = "update_sleep"
            /\ update_sleeps' = update_sleeps + 1
    /\ UNCHANGED << data_set_sleeps, waits >>
    /\ UNCHANGED << online, config, same, run_hist, files, out_file, channel_list, position, counts,
                    exit_status, passed, header_written, fetches, done, crash_hist,
                    handler_hist >>

\* Line 40: makedirs(dirname(out_file_name), exist_ok=True).
MakeDirs ==
    /\ pc = "makedirs"
    /\ pc' = "open"
    /\ stages' = Append(stages, "makedirs")
    /\ fetched_count' = fetched_count
    /\ UNCHANGED << online, config, same, cycle_hist, locals, files, out_file, exit_status, passed,
                    header_written, fetches, done, crash_hist, handler_hist >>

\* Line 42 with the file left as it was (mode 'a' instead of 'w').
OpenAppend ==
    /\ pc = "open"
    /\ pc' = "write_first_line"
    /\ out_file' = out_file \cup {out_file_name}
    /\ passed' = [passed EXCEPT ![out_file_name] = << >>]
    /\ header_written' = [header_written EXCEPT ![out_file_name] = FALSE]
    /\ stages' = Append(stages, "open")
    /\ fetched_count' = fetched_count
    /\ UNCHANGED << online, config, same, cycle_hist, locals, files, exit_status, fetches, done,
                    crash_hist, handler_hist >>

\* Line 42: open(out_file_name, 'w', out_file_encoding) truncates the file.
Open ==
    /\ pc = "open"
    /\ pc' = "write_first_line"
    /\ files' = [files EXCEPT ![out_file_name] = << >>]
    /\ out_file' = out_file \cup {out_file_name}
    /\ passed' = [passed EXCEPT ![out_file_name] = << >>]
    /\ header_written' = [header_written EXCEPT ![out_file_name] = FALSE]
    /\ stages' = Append(stages, "open")
    /\ fetched_count' = fetched_count
    /\ UNCHANGED << online, config, same, cycle_hist, locals, exit_status, fetches, done, crash_hist,
                    handler_hist >>

\* Lines 43-46 without lines 45-46: the counters keep the values of the run
\* before.
WriteFirstLineNoReset ==
    /\ pc = "write_first_line"
    /\ pc' = "get_channel_list"
    /\ files' = [files EXCEPT ![out_file_name] = Append(@, FirstLine(out_file_first_line))]
    /\ header_written' = [header_written EXCEPT ![out_file_name] = TRUE]
    /\ stages' = Append(stages, "write_first_line")
    /\ fetched_count' = fetched_count
    /\ UNCHANGED << online, config, same, cycle_hist, locals, out_file,
                    exit_status, passed, fetches, done, crash_hist, handler_hist >>

\* Lines 43-46: the first line is written, the counters start at 0.
WriteFirstLine ==
    /\ pc = "write_first_line"
    /\ pc' = "get_channel_list"
    /\ files' = [files EXCEPT ![out_file_name] = Append(@, FirstLine(out_file_first_line))]
    /\ header_written' = [header_written EXCEPT ![out_file_name] = TRUE]
    /\ total_channel_count' = 0
    /\ allowed_channel_count' = 0
    /\ stages' = Append(stages, "write_first_line")
    /\ fetched_count' = fetched_count
    /\ UNCHANGED << online, config, same, cycle_hist, data_set_number, channel_list, position, out_file,
                    exit_status, passed, fetches, done, crash_hist, handler_hist >>

\* Line 48: ChannelHandler.get_channel_list(data_set) returns one of `lists`.
GetChannelListFrom(lists) ==
    /\ pc = "get_channel_list"
    /\ online
    /\ \E list \in lists : channel_list' = list
    /\ pc' = "replace_categories"
    /\ fetches' = [fetches EXCEPT ![data_set_number] = @ + 1]
    /\ stages' = Append(stages, "get_channel_list")
    /\ fetched_count' = Len(channel_list')
    /\ UNCHANGED << online, config, same, cycle_hist, data_set_number, position, counts, files, out_file,
                    exit_status, passed, header_written, done, crash_hist,
                    handler_hist >>

\* Line 48, the source's listing left open.
GetChannelList == GetChannelListFrom(Listings)

\* Line 48 with an unchanging source.
GetChannelListSame == GetChannelListFrom({source})

\* Line 49: ChannelHandler.replace_categories(channel_list, data_set) returns one
\* of `lists`.
ReplaceCategoriesTo(lists) ==
    /\ pc = "replace_categories"
    /\ \E list \in lists : channel_list' = list
    /\ pc' = "sort"
    /\ stages' = Append(stages, "replace_categories")
    /\ fetched_count' = fetched_count
    /\ UNCHANGED << online, config, same, cycle_hist, data_set_number, position, counts, files, out_file,
                    exit_status, passed, header_written, fetches, done, crash_hist,
                    handler_hist >>

\* Line 49, the data set's rules left open.
ReplaceCategories == ReplaceCategoriesTo(Remapped(channel_list))

\* Line 49 with unchanging, deterministic rules.
ReplaceCategoriesSame == ReplaceCategoriesTo({RemapBy(channel_list, rules.remap)})

\* Lines 50-51: the two sorts.
Sort ==
    /\ pc = "sort"
    /\ channel_list' = sort_channel_list(channel_list)
    /\ pc' = "clean_filter"
    /\ stages' = Append(stages, "sort")
    /\ fetched_count' = fetched_count
    /\ UNCHANGED << online, config, same, cycle_hist, data_set_number, position, counts, files, out_file,
                    exit_status, passed, header_written, fetches, done, crash_hist,
                    handler_hist >>

\* Lines 53-54 without the test of line 53: clean_filter is called for every
\* data set.
CleanFilterAlwaysTo(lists) ==
    /\ pc = "clean_filter"
    /\ \E list \in lists : channel_list' = list
    /\ stages' = Append(stages, "clean_filter")
    /\ fetched_count' = fetched_count
    /\ position' = 0
    /\ pc' = "for_channel"
    /\ UNCHANGED << online, config, same, cycle_hist, data_set_number, counts, files, out_file,
                    exit_status, passed, header_written, fetches, done, crash_hist,
                    handler_hist >>

\* Lines 53-54: clean_filter changes the list in place, to one of `lists`, if the
\* data set asks for it; line 56 then starts the loop.
CleanFilterTo(lists) ==
    /\ pc = "clean_filter"
    /\ IF data_set.CLEAN_FILTER
       THEN \E list \in lists : channel_list' = list
       ELSE channel_list' = channel_list
    /\ stages' = IF data_set.CLEAN_FILTER THEN Append(stages, "clean_filter")
                                        ELSE stages
    /\ fetched_count' = fetched_count
    /\ position' = 0
    /\ pc' = "for_channel"
    /\ UNCHANGED << online, config, same, cycle_hist, data_set_number, counts, files, out_file,
                    exit_status, passed, header_written, fetches, done, crash_hist,
                    handler_hist >>

\* Lines 53-56, the data set's rules left open.
CleanFilter == CleanFilterTo(Cleaned(channel_list))

\* Lines 53-56 with unchanging, deterministic rules.
CleanFilterSame == CleanFilterTo({Dedup(channel_list)})

\* Lines 56-57: the loop takes the next channel and counts it, or ends.
ForChannel ==
    /\ pc = "for_channel"
    /\ IF position < Len(channel_list)
       THEN /\ position' = position + 1
            /\ total_channel_count' = total_channel_count + 1
            /\ pc' = "is_channel_allowed"
       ELSE /\ position' = 0
            /\ total_channel_count' = total_channel_count
            /\ pc' = "close"
    /\ UNCHANGED << online, config, same, run_hist, cycle_hist, data_set_number, channel_list,
                    allowed_channel_count, files, out_file, exit_status, passed,
                    header_written, fetches, done, crash_hist, handler_hist >>

\* Line 59 with the result ignored: every channel goes on to write_entry.
IsChannelAllowedIgnored ==
    /\ pc = "is_channel_allowed"
    /\ \E allowed \in BOOLEAN :
        /\ pc' = "write_entry"
        /\ passed' = IF allowed
                     THEN [passed EXCEPT ![out_file_name] =
                              Append(@, channel_list[position])]
                     ELSE passed
    /\ stages' = Append(stages, "is_channel_allowed")
    /\ fetched_count' = fetched_count
    /\ UNCHANGED << online, config, same, cycle_hist, locals, files, out_file, exit_status,
                    header_written, fetches, done, crash_hist, handler_hist >>

\* Line 59: ChannelHandler.is_channel_allowed(channel, data_set) returns one of
\* `verdicts`.
IsChannelAllowedWith(verdicts) ==
    /\ pc = "is_channel_allowed"
    /\ \E allowed \in verdicts :
        /\ pc' = IF allowed THEN "write_entry" ELSE "for_channel"
        /\ passed' = IF allowed
                     THEN [passed EXCEPT ![out_file_name] =
                              Append(@, channel_list[position])]
                     ELSE passed
    /\ stages' = Append(stages, "is_channel_allowed")
    /\ fetched_count' = fetched_count
    /\ UNCHANGED << online, config, same, cycle_hist, locals, files, out_file, exit_status,
                    header_written, fetches, done, crash_hist, handler_hist >>

\* Line 59, the data set's rules left open.
IsChannelAllowed == IsChannelAllowedWith(BOOLEAN)

\* Line 59 with unchanging, deterministic rules.
IsChannelAllowedSame == IsChannelAllowedWith({AllowedBy(channel_list[position], rules.deny)})

\* Lines 60-61 without line 61: the entry is written but not counted.
WriteEntryUncounted ==
    /\ pc = "write_entry"
    /\ files' = [files EXCEPT ![out_file_name] =
                    Append(@, Entry(channel_list[position], out_file_name))]
    /\ pc' = "for_channel"
    /\ UNCHANGED << online, config, same, run_hist, cycle_hist, locals, out_file,
                    exit_status, passed, header_written, fetches, done, crash_hist,
                    handler_hist >>

\* Lines 60-61: write_entry appends the channel's entry; the channel is counted.
WriteEntry ==
    /\ pc = "write_entry"
    /\ files' = [files EXCEPT ![out_file_name] =
                    Append(@, Entry(channel_list[position], out_file_name))]
    /\ allowed_channel_count' = allowed_channel_count + 1
    /\ pc' = "for_channel"
    /\ UNCHANGED << online, config, same, run_hist, cycle_hist, data_set_number, channel_list, position,
                    total_channel_count, out_file, exit_status, passed,
                    header_written, fetches, done, crash_hist, handler_hist >>

\* Line 42, leaving the with block: closing() closes the file.
Close ==
    /\ pc = "close"
    /\ out_file' = out_file \ {out_file_name}
    /\ done' = done \cup {data_set_number}
    /\ pc' = "report"
    /\ UNCHANGED << online, config, same, run_hist, cycle_hist, locals, files, exit_status, passed,
                    header_written, fetches, crash_hist, handler_hist >>

\* Lines 63-73 without the test of line 68: every data set is followed by the
\* data set delay.
ReportAlwaysSleeps ==
    /\ pc = "report"
    /\ pc' = "data_set_sleep"
    /\ data_set_sleeps' = data_set_sleeps + 1
    /\ stages' = << >>
    /\ fetched_count' = 0
    /\ UNCHANGED << update_sleeps, waits >>
    /\ UNCHANGED << online, config, same, locals, files, out_file, exit_status, passed,
                    header_written, fetches, done, crash_hist, handler_hist >>

\* Lines 63-73: the counts are printed; a data set that is not the last is
\* followed by the data set delay. `run` is the new value of last_run.
ReportRecording(run) ==
    /\ pc = "report"
    /\ pc' = IF data_set_number < Len(DATA_SETS) THEN "data_set_sleep"
                                                 ELSE "for_data_set"
    /\ data_set_sleeps' = IF data_set_number < Len(DATA_SETS) THEN data_set_sleeps + 1
                                                              ELSE data_set_sleeps
    /\ stages' = << >>
    /\ fetched_count' = 0
    /\ UNCHANGED << update_sleeps, waits >>
    /\ last_run' = run
    /\ UNCHANGED << online, config, source, rules, locals, files, out_file, exit_status, passed,
                    header_written, fetches, done, crash_hist, handler_hist >>

\* Lines 63-73.
Report == ReportRecording(last_run)

\* Lines 63-73, the completed run remembered.
ReportSame ==
    ReportRecording([last_run EXCEPT ![out_file_name] =
                        << files[out_file_name], total_channel_count,
                           allowed_channel_count >>])

\* Line 71: sleep(Config.DATA_SET_DELAY) returns.
DataSetSleep ==
    /\ pc = "data_set_sleep"
    /\ pc' = "for_data_set"
    /\ UNCHANGED << online, config, same, run_hist, cycle_hist, locals, files, out_file, exit_status, passed,
                    header_written, fetches, done, crash_hist, handler_hist >>

\* Line 78 without the while loop of line 25: main returns after one cycle and
\* the process ends.
UpdateSleepReturn ==
    /\ pc = "update_sleep"
    /\ pc' = "terminated"
    /\ exit_status' = 0
    /\ UNCHANGED << online, config, same, run_hist, cycle_hist, locals, files,
                    out_file, passed, header_written, fetches, done, crash_hist,
                    handler_hist >>

\* Line 78 with the connectivity wait outside the while loop: the next cycle
\* starts without it.
UpdateSleepNoWait ==
    /\ pc = "update_sleep"
    /\ pc' = "for_data_set"
    /\ data_set_number' = 0
    /\ fetches' = [n \in DataSetNumbers |-> 0]
    /\ done' = {}
    /\ data_set_sleeps' = 0
    /\ update_sleeps' = 0
    /\ waits' = 0
    /\ UNCHANGED << online, config, same, run_hist, files, out_file, channel_list,
                    position, counts, exit_status, passed, header_written,
                    crash_hist, handler_hist >>

\* Line 78: sleep(Config.UPDATE_DELAY) returns; line 25 starts the next cycle.
UpdateSleep ==
    /\ pc = "update_sleep"
    /\ pc' = "wait_for_internet"
    /\ data_set_sleeps' = 0
    /\ update_sleeps' = 0
    /\ waits' = 0
    /\ UNCHANGED << online, config, same, run_hist, locals, files, out_file, exit_status, passed,
                    header_written, fetches, done, crash_hist, handler_hist >>

\* An exception without closing(): the file stays open.
RaiseLeak(cause) ==
    /\ pc' = "print_exc"
    /\ out_file' = out_file
    /\ crashed_at' = data_set_number
    /\ crash_cause' = cause
    /\ crash_stage' = pc
    /\ stages' = << >>
    /\ fetched_count' = 0
    /\ data_set_number' = 0
    /\ channel_list' = << >>
    /\ position' = 0
    /\ total_channel_count' = 0
    /\ allowed_channel_count' = 0
    /\ UNCHANGED << online, config, same, cycle_hist, files, exit_status, passed, header_written,
                    fetches, done, handler_hist >>

\* An exception caught per data set: the driver carries on with the report.
RaiseIsolated(cause) ==
    /\ pc' = "report"
    /\ out_file' = {}
    /\ crashed_at' = data_set_number
    /\ crash_cause' = cause
    /\ crash_stage' = pc
    /\ UNCHANGED << online, config, same, run_hist, cycle_hist, locals, files, exit_status, passed,
                    header_written, fetches, done, handler_hist >>

\* An exception after which the unfinished file is emptied.
RaiseDiscard(cause) ==
    /\ pc' = "print_exc"
    /\ out_file' = {}
    /\ files' = IF pc \in InsideWith THEN [files EXCEPT ![out_file_name] = << >>]
                                     ELSE files
    /\ crashed_at' = data_set_number
    /\ crash_cause' = cause
    /\ crash_stage' = pc
    /\ stages' = << >>
    /\ fetched_count' = 0
    /\ data_set_number' = 0
    /\ channel_list' = << >>
    /\ position' = 0
    /\ total_channel_count' = 0
    /\ allowed_channel_count' = 0
    /\ UNCHANGED << online, config, same, cycle_hist, exit_status, passed, header_written,
                    fetches, done, handler_hist >>

\* What an exception does to main: the with block closes the file, main's frame
\* is gone, and control is at line 86.
Raise(cause) ==
    /\ pc' = "print_exc"
    /\ out_file' = {}
    /\ crashed_at' = data_set_number
    /\ crash_cause' = cause
    /\ crash_stage' = pc
    /\ stages' = << >>
    /\ fetched_count' = 0
    /\ data_set_number' = 0
    /\ channel_list' = << >>
    /\ position' = 0
    /\ total_channel_count' = 0
    /\ allowed_channel_count' = 0
    /\ UNCHANGED << online, config, same, cycle_hist, files, exit_status, passed, header_written,
                    fetches, done, handler_hist >>

\* A call of the pipeline raises (lines 40, 42, 43, 48, 49, 54, 59, 60, or the
\* close on leaving the with block).
Fail ==
    /\ pc \in Failable
    /\ Raise("other")

\* Line 48 without connectivity: the listing cannot be fetched.
GetChannelListOffline ==
    /\ pc = "get_channel_list"
    /\ ~online
    /\ Raise("network")

-----------------------------------------------------------------------------
(* __main__, lines 84-97 *)

AfterMail == IF PAUSE_ON_CRASH THEN "input" ELSE "exit"

\* Line 89 without the test: the notification is sent whatever the setting.
PrintExcAlwaysMail ==
    /\ pc = "print_exc"
    /\ printed' = printed + 1
    /\ pc' = "send_email"
    /\ UNCHANGED << online, config, same, run_hist, cycle_hist, locals, files, out_file, exit_status, passed,
                    header_written, fetches, done, crash_hist, emails, paused >>

\* Line 87: print_exc(); line 89 reads Config.MAIL_ON_CRASH.
PrintExc ==
    /\ pc = "print_exc"
    /\ printed' = printed + 1
    /\ pc' = IF MAIL_ON_CRASH THEN "send_email" ELSE AfterMail
    /\ UNCHANGED << online, config, same, run_hist, cycle_hist, locals, files, out_file, exit_status, passed,
                    header_written, fetches, done, crash_hist, emails, paused >>

\* Lines 90-92: Utils.send_email(...) returns; line 94 reads Config.PAUSE_ON_CRASH.
SendEmail ==
    /\ pc = "send_email"
    /\ emails' = emails + 1
    /\ pc' = AfterMail
    /\ UNCHANGED << online, config, same, run_hist, cycle_hist, locals, files, out_file, exit_status, passed,
                    header_written, fetches, done, crash_hist, printed, paused >>

\* Lines 90-92: Utils.send_email(...) raises inside the except block: nothing
\* catches it, the interpreter prints it and ends the process with status 1.
SendEmailFails ==
    /\ pc = "send_email"
    /\ emails' = emails + 1
    /\ pc' = "terminated"
    /\ exit_status' = 1
    /\ UNCHANGED << online, config, same, run_hist, cycle_hist, locals, files, out_file, passed,
                    header_written, fetches, done, crash_hist, printed, paused >>

\* Line 95: input(...) returns when the operator presses Enter.
Input ==
    /\ pc = "input"
    /\ paused' = paused + 1
    /\ pc' = "exit"
    /\ UNCHANGED << online, config, same, run_hist, cycle_hist, locals, files, out_file, exit_status, passed,
                    header_written, fetches, done, crash_hist, printed, emails >>

\* Line 97: exit(1).
Exit ==
    /\ pc = "exit"
    /\ exit_status' = 1
    /\ pc' = "terminated"
    /\ UNCHANGED << online, config, same, run_hist, cycle_hist, locals, files, out_file, passed,
                    header_written, fetches, done, crash_hist, handler_hist >>

-----------------------------------------------------------------------------

Next ==
    \/ ToggleNet
    \/ WaitForInternet
    \/ ForDataSet
    \/ MakeDirs
    \/ Open
    \/ WriteFirstLine
    \/ GetChannelList
    \/ GetChannelListOffline
    \/ ReplaceCategories
    \/ Sort
    \/ CleanFilter
    \/ ForChannel
    \/ IsChannelAllowed
    \/ WriteEntry
    \/ Close
    \/ Report
    \/ DataSetSleep
    \/ UpdateSleep
    \/ Fail
    \/ PrintExc
    \/ SendEmail
    \/ SendEmailFails
    \/ Input
    \/ Exit

Spec == Init /\ [][Next]_vars

TypeOK ==
    /\ pc \in {"wait_for_internet", "for_data_set", "report"} \cup Pipeline \cup Sleeps
              \cup Handler
    /\ data_set_number \in 0..Len(DATA_SETS)
    /\ channel_list \in Listings
    /\ position \in 0..Len(channel_list)
    /\ total_channel_count \in 0..MaxLen
    /\ allowed_channel_count \in 0..total_channel_count
    /\ Cardinality(out_file) <= 1
    /\ exit_status \in {-1, 1}

-----------------------------------------------------------------------------
(* The pipeline re-run on an unchanging source with unchanging rules *)

InitSame ==
    /\ pc = "wait_for_internet"
    /\ online = TRUE
    /\ MAIL_ON_CRASH = FALSE
    /\ PAUSE_ON_CRASH = FALSE
    /\ source \in Listings
    /\ rules \in Rules
    /\ last_run = [f \in FileNames |-> << >>]
    /\ data_set_number = 0
    /\ files \in [FileNames -> StaleFiles]
    /\ out_file = {}
    /\ channel_list = << >>
    /\ position = 0
    /\ total_channel_count = 0
    /\ allowed_channel_count = 0
    /\ exit_status = -1
    /\ passed = [f \in FileNames |-> << >>]
    /\ header_written = [f \in FileNames |-> FALSE]
    /\ fetches = [n \in DataSetNumbers |-> 0]
    /\ done = {}
    /\ crashed_at = 0
    /\ crash_cause = "none"
    /\ crash_stage = "none"
    /\ stages = << >>
    /\ fetched_count = 0
    /\ data_set_sleeps = 0
    /\ update_sleeps = 0
    /\ waits = 0
    /\ printed = 0
    /\ emails = 0
    /\ paused = 0

NextSame ==
    \/ WaitForInternet
    \/ ForDataSet
    \/ MakeDirs
    \/ Open
    \/ WriteFirstLine
    \/ GetChannelListSame
    \/ ReplaceCategoriesSame
    \/ Sort
    \/ CleanFilterSame
    \/ ForChannel
    \/ IsChannelAllowedSame
    \/ WriteEntry
    \/ Close
    \/ ReportSame
    \/ DataSetSleep
    \/ UpdateSleep

SpecSame == InitSame /\ [][NextSame]_vars

-----------------------------------------------------------------------------
(* Normal operation: no call raises, and every wait, call and sleep returns *)

InitLive == Init /\ ~MAIL_ON_CRASH /\ ~PAUSE_ON_CRASH

\* The steps of main that only wait for their turn.
Proceed ==
    \/ ForDataSet
    \/ MakeDirs
    \/ Open
    \/ WriteFirstLine
    \/ ReplaceCategories
    \/ Sort
    \/ CleanFilter
    \/ ForChannel
    \/ IsChannelAllowed
    \/ WriteEntry
    \/ Close
    \/ Report
    \/ DataSetSleep
    \/ UpdateSleep

NextLive ==
    \/ ToggleNet
    \/ WaitForInternet
    \/ GetChannelList
    \/ Proceed

\* An outage ends.
NetComesBack == ~online /\ ToggleNet

\* Every call and sleep returns; no outage lasts for ever, and the connectivity
\* wait and the fetch, which need the network, return although the network may
\* go down again and again.
SpecLive ==
    /\ InitLive
    /\ [][NextLive]_vars
    /\ WF_vars(Proceed)
    /\ WF_vars(NetComesBack)
    /\ SF_vars(WaitForInternet)
    /\ SF_vars(GetChannelList)

-----------------------------------------------------------------------------
(* Properties *)

FileOf(n) == DATA_SETS[n].OUT_FILE_NAME

\* The entries of a file: its lines that write_entry wrote.
FileEntries(f) == SelectSeq(files[f], LAMBDA line : line[1] = "entry")

EntryName(line) == line[3]
EntryCat(line) == line[4]

\* C1: every entry in an output file was written for a channel that
\* is_channel_allowed accepted in the invocation that opened the file: the entries
\* of a file are, in order, the entries of the accepted channels (the last accepted
\* channel's entry may still be about to be written); a denied channel, or one
\* never evaluated, has no entry.
OnlyAllowedWritten ==
    \A f \in FileNames :
        /\ Len(FileEntries(f)) <= Len(passed[f])
        /\ Len(passed[f]) <= Len(FileEntries(f)) + 1
        /\ FileEntries(f) = SubSeq(Entries(passed[f], f), 1, Len(FileEntries(f)))

\* A data set has completed with an entry written and a channel denied.
OnlyAllowedWrittenWitness ==
    /\ pc = "report"
    /\ allowed_channel_count >= 1
    /\ total_channel_count > allowed_channel_count
    /\ Len(FileEntries(out_file_name)) = allowed_channel_count

CompletedFile ==
    pc = "report" =>
        /\ files[out_file_name] =
               << FirstLine(out_file_first_line) >>
                   \o Entries(passed[out_file_name], out_file_name)
        /\ passed[out_file_name] \in Cleaned(channel_list)
        /\ Len(passed[out_file_name]) = allowed_channel_count
        /\ Len(channel_list) = total_channel_count

\* A data set has completed in a cycle, its file holding fewer entries than
\* the other file, which a pipeline wrote before.
CompletedFileWitness ==
    /\ pc = "report"
    /\ data_set_number = 1
    /\ header_written[FileOf(2)]
    /\ total_channel_count = 2
    /\ allowed_channel_count = 1
    /\ Len(files[FileOf(2)]) = 3

\* C4: a file whose opening invocation has written the first line begins with the
\* data set's OUT_FILE_FIRST_LINE from then on, also after a later stage of that
\* invocation has failed; with an empty channel list the completed file is the
\* first line alone and both counters are 0.
HeaderFirst ==
    /\ \A n \in DataSetNumbers :
          header_written[FileOf(n)] =>
              /\ files[FileOf(n)] # << >>
              /\ files[FileOf(n)][1] = FirstLine(DATA_SETS[n].OUT_FILE_FIRST_LINE)
    /\ (pc = "report" /\ channel_list = << >>) =>
          /\ files[out_file_name] = << FirstLine(out_file_first_line) >>
          /\ total_channel_count = 0
          /\ allowed_channel_count = 0

\* The first data set completed with an empty list, and the pipeline of the
\* second failed after its first line was written.
HeaderFirstWitness ==
    /\ pc = "print_exc"
    /\ crashed_at = 2
    /\ header_written[FileOf(2)]
    /\ Len(files[FileOf(1)]) = 1

\* The data sets whose pipeline has started in this cycle.
Started == done \cup (IF pc \in Pipeline THEN {data_set_number} ELSE {})

\* C5: in a cycle the data sets are processed in configuration order, one after
\* the other: a data set's pipeline starts only when the pipelines of all data
\* sets before it have completed, the open file is the current data set's, and
\* get_channel_list is called at most once per data set and cycle.
InConfigurationOrder ==
    /\ \A j \in Started : \A i \in 1..(j - 1) : i \in done
    /\ \A n \in DataSetNumbers : fetches[n] <= 1
    /\ \A n \in DataSetNumbers : fetches[n] = 1 => n \in Started \/ crashed_at = n
    /\ pc \in Pipeline => out_file \subseteq {out_file_name}

\* The second data set's list is about to be fetched; the first has completed.
InConfigurationOrderWitness ==
    /\ pc = "get_channel_list"
    /\ data_set_number = 2
    /\ done = {1}
    /\ fetches = [n \in DataSetNumbers |-> IF n = 1 THEN 1 ELSE 0]

\* C6: a failure of a pipeline step takes control straight to the handler of
\* line 86, and from there the process never again runs a pipeline step, sleeps
\* or starts a cycle: no file, fetch or completion changes any more.
FailureAborts ==
    [][ /\ crash_cause' # crash_cause => pc' = "print_exc"
        /\ pc \in Handler =>
              /\ pc' \in Handler
              /\ UNCHANGED << files, out_file, fetches, done, crash_hist >> ]_vars

\* The first data set failed after its fetch, and the process has ended: the
\* second data set was never started.
FailureAbortsWitness ==
    /\ pc = "terminated"
    /\ crashed_at = 1
    /\ fetches[1] = 1
    /\ fetches[2] = 0
    /\ ~header_written[FileOf(2)]

\* C7: at most one output file is open, and none is open while control is outside
\* the with block: in the connectivity wait, in a sleep, in the handler or after
\* the end of the process, however the with block was left.
HandleReleased ==
    /\ Cardinality(out_file) <= 1
    /\ pc \notin InsideWith => out_file = {}
    /\ pc \in InsideWith => out_file = {out_file_name}

\* A pipeline failed inside the with block, after an entry was written.
HandleReleasedWitness ==
    /\ pc = "print_exc"
    /\ crashed_at = 2
    /\ Len(files[FileOf(2)]) >= 2

\* C8: a connectivity outage never takes the process into the handler.
NoCrashByOutage == crash_cause # "network"

\* C9: the handler runs once, after a failure: it prints the diagnostic, then
\* calls send_email once if and only if MAIL_ON_CRASH is set, then the process
\* ends with status 1; the process ends in no other way.
HandlerOnce ==
    /\ (pc \in Handler) <=> (crash_cause # "none")
    /\ printed = (IF pc \in Handler \ {"print_exc"} THEN 1 ELSE 0)
    /\ emails \in {0, 1}
    /\ emails = 1 => MAIL_ON_CRASH /\ pc \in {"input", "exit", "terminated"}
    /\ pc \in {"input", "exit", "terminated"} => emails = (IF MAIL_ON_CRASH THEN 1 ELSE 0)
    /\ pc = "send_email" => MAIL_ON_CRASH
    /\ (exit_status # -1) <=> (pc = "terminated")
    /\ exit_status \in {-1, 1}

\* The process has ended after the diagnostic and one notification.
HandlerOnceWitness ==
    /\ pc = "terminated"
    /\ exit_status = 1
    /\ MAIL_ON_CRASH
    /\ emails = 1
    /\ printed = 1

\* C10: with PAUSE_ON_CRASH set, the process does not end before input() was
\* called.
PauseBeforeExit == (pc = "terminated" /\ PAUSE_ON_CRASH) => paused = 1

\* C11: when the pipeline of a data set without CLEAN_FILTER has completed, the
\* number of entries in its file, the number of channels is_channel_allowed
\* accepted and allowed_channel_count are equal, and total_channel_count is the
\* size of the list get_channel_list returned.
CountsWithoutCleanFilter ==
    (pc = "report" /\ ~data_set.CLEAN_FILTER) =>
        /\ Len(FileEntries(out_file_name)) = Len(passed[out_file_name])
        /\ Len(passed[out_file_name]) = allowed_channel_count
        /\ total_channel_count = fetched_count

\* The data set without CLEAN_FILTER has completed: two channels fetched, one
\* accepted.
CountsWithoutCleanFilterWitness ==
    /\ pc = "report"
    /\ ~data_set.CLEAN_FILTER
    /\ fetched_count = 2
    /\ allowed_channel_count = 1

\* C12: in a cycle the data set delay is slept once after each data set but the
\* last, between the end of that data set's pipeline and the start of the next;
\* when the cycle's for loop has ended, Len(DATA_SETS) - 1 data set delays were
\* slept; the update delay is slept once, after the last data set, and only
\* from it control returns to the connectivity wait.
SleepsPerCycle ==
    /\ [](/\ update_sleeps = (IF pc = "update_sleep" THEN 1 ELSE 0)
          /\ pc = "update_sleep" =>
                /\ done = DataSetNumbers
                /\ data_set_sleeps = Len(DATA_SETS) - 1
          /\ pc # "wait_for_internet" =>
                data_set_sleeps =
                    Cardinality(done \ {Len(DATA_SETS)})
                        - (IF pc = "report" /\ data_set_number < Len(DATA_SETS)
                           THEN 1 ELSE 0)
          /\ pc = "data_set_sleep" =>
                /\ data_set_number < Len(DATA_SETS)
                /\ data_set_number \in done
                /\ (data_set_number + 1) \notin done
                /\ out_file = {})
    /\ [][(pc # "wait_for_internet" /\ pc' = "wait_for_internet") =>
              (pc = "update_sleep" /\ update_sleeps = 1)]_vars

\* A cycle's for loop has ended without a failure and the update delay is slept.
SleepsPerCycleWitness ==
    /\ pc = "update_sleep"
    /\ data_set_sleeps = 1
    /\ update_sleeps = 1
    /\ crash_cause = "none"

\* C13: in every cycle wait_for_internet returns once, with the network
\* reachable, before any step of a data set: outside the wait (and in the
\* handler) the cycle has waited exactly once, and as long as control is in the
\* wait no file is open and no file, fetch count or completion changes.
NoCycleWithoutConnectivity ==
    /\ [](/\ pc = "wait_for_internet" => waits = 0 /\ out_file = {}
          /\ pc # "wait_for_internet" => waits = 1)
    /\ [][pc = "wait_for_internet" =>
              /\ UNCHANGED << files, out_file, header_written, passed >>
              /\ pc' # "wait_for_internet" =>
                    /\ online
                    /\ pc' = "for_data_set"
                    /\ data_set_number' = 0
                    /\ \A n \in DataSetNumbers : fetches'[n] = 0 ]_vars

\* A cycle that follows a completed one has waited, and the first data set's
\* directory is about to be made.
NoCycleWithoutConnectivityWitness ==
    /\ pc = "makedirs"
    /\ data_set_number = 1
    /\ waits = 1
    /\ \A f \in FileNames : header_written[f]

\* C14: with an unchanging source and unchanging, deterministic rules, every
\* completed run of a data set's pipeline leaves the same file content and the
\* same counts as the data set's previous completed run, whatever the file held
\* before the first.
SameOutput ==
    (pc = "report" /\ last_run[out_file_name] # << >>) =>
        last_run[out_file_name] =
            << files[out_file_name], total_channel_count, allowed_channel_count >>

\* The data set with CLEAN_FILTER has completed a second run: a duplicate was
\* removed, one channel of two was denied, and the file held something else
\* before the first run.
SameOutputWitness ==
    /\ pc = "report"
    /\ data_set.CLEAN_FILTER
    /\ last_run[out_file_name] # << >>
    /\ Len(source) = 2
    /\ total_channel_count = 2
    /\ allowed_channel_count = 1
    /\ files[out_file_name] # << >>

\* C15: under normal operation the process never ends, cycles start again and
\* again, and every data set's pipeline completes again and again.
RunsForever ==
    /\ [](pc # "terminated" /\ exit_status = -1)
    /\ []<>(pc = "for_data_set" /\ data_set_number = 0)
    /\ \A n \in DataSetNumbers : []<>(pc = "report" /\ data_set_number = n)

\* A cycle has ended and the update delay is slept, both files written.
RunsForeverWitness ==
    /\ pc = "update_sleep"
    /\ done = DataSetNumbers
    /\ \A f \in FileNames : Len(files[f]) >= 2

\* The calls of one run of a data set's pipeline before the loop, in the order
\* of lines 40-54.
StageOrder ==
    << "makedirs", "open", "write_first_line", "get_channel_list",
       "replace_categories", "sort" >>
    \o (IF data_set.CLEAN_FILTER THEN << "clean_filter" >> ELSE << >>)

\* The number of calls made when control is at a statement of the pipeline.
StagesDone ==
    CASE pc = "makedirs" -> 0
      [] pc = "open" -> 1
      [] pc = "write_first_line" -> 2
      [] pc = "get_channel_list" -> 3
      [] pc = "replace_categories" -> 4
      [] pc = "sort" -> 5
      [] pc = "clean_filter" -> 6
      [] pc = "is_channel_allowed" -> Len(StageOrder) + total_channel_count - 1
      [] OTHER -> Len(StageOrder) + total_channel_count

\* C16: in every run of a data set's pipeline the calls made so far are, in this
\* order, makedirs, open, the header write, get_channel_list,
\* replace_categories, the sorts, clean_filter exactly once if and only if the
\* data set has CLEAN_FILTER set, and then only is_channel_allowed, once per
\* channel taken; the header is in the file when get_channel_list is called.
StagesInOrder ==
    pc \in Pipeline \cup {"report"} =>
        /\ Len(stages) = StagesDone
        /\ \A i \in 1..Len(stages) :
              stages[i] = IF i <= Len(StageOrder) THEN StageOrder[i]
                                                 ELSE "is_channel_allowed"
        /\ pc = "get_channel_list" => files[out_file_name] = << FirstLine(out_file_first_line) >>

\* A run with clean_filter has ended its loop over two channels; another run,
\* of the data set without CLEAN_FILTER, has completed before it.
StagesInOrderWitness ==
    /\ pc = "close"
    /\ data_set.CLEAN_FILTER
    /\ stages[7] = "clean_filter"
    /\ Len(stages) = 9
    /\ \E n \in done : ~DATA_SETS[n].CLEAN_FILTER

\* The verdicts of is_channel_allowed in the current run that were False.
Denials == (Len(stages) - Len(StageOrder)) - Len(passed[out_file_name])

\* C17: the counters belong to one run of one data set: both are 0 from lines
\* 45-46 until the loop starts; always 0 <= allowed <= total <= the length of
\* the list; in the loop total is the number of channels taken and allowed the
\* number of entries write_entry put into the file in this run; when the counts
\* are printed total is the length of this run's list and total - allowed is
\* the number of channels this run denied.
CountersPerDataSet ==
    /\ 0 <= allowed_channel_count
    /\ allowed_channel_count <= total_channel_count
    /\ total_channel_count <= Len(channel_list)
    /\ pc \in {"get_channel_list", "replace_categories", "sort", "clean_filter"} =>
            /\ total_channel_count = 0
            /\ allowed_channel_count = 0
    /\ pc \in {"for_channel", "is_channel_allowed", "write_entry"} =>
            total_channel_count = position
    /\ pc \in {"for_channel", "is_channel_allowed", "write_entry", "close", "report"} =>
            allowed_channel_count = Len(FileEntries(out_file_name))
    /\ pc \in {"close", "report"} =>
            /\ total_channel_count = Len(channel_list)
            /\ total_channel_count - allowed_channel_count = Denials

\* The counts of the second data set are printed, two of two channels denied,
\* after the first data set had two of two channels allowed.
CountersPerDataSetWitness ==
    /\ pc = "report"
    /\ data_set_number = 2
    /\ total_channel_count = 2
    /\ allowed_channel_count = 0
    /\ Len(FileEntries(FileOf(1))) = 2

\* The channels whose entries the failed run had written: those allowed, less
\* the one whose write_entry raised.
WrittenBeforeFailure ==
    LET allowed == passed[FileOf(crashed_at)]
    IN  IF crash_stage = "write_entry" THEN SubSeq(allowed, 1, Len(allowed) - 1)
                                       ELSE allowed

\* The first line and the entries the failed run had written.
LeftByFailure ==
    << FirstLine(DATA_SETS[crashed_at].OUT_FILE_FIRST_LINE) >>
    \o Entries(WrittenBeforeFailure, FileOf(crashed_at))

\* C18 as stated: after a failure anywhere inside the with block, the file of
\* the failed data set holds its first line followed by the entries written
\* before the failure, up to the end of the process.
FailureLeavesHeader ==
    crash_stage \in InsideWith => files[FileOf(crashed_at)] = LeftByFailure

\* C18: after a failure inside the with block later than the write of the first
\* line, the file of the failed data set holds its first line followed by the
\* entries written before the failure (the first line alone if
\* get_channel_list, replace_categories or clean_filter raised); after a failure
\* of the write of the first line it is empty; this is so up to the end of the
\* process, and whatever the file held before, because the open empties it.
FailureLeavesWritten ==
    /\ [](/\ crash_stage \in InsideWith \ {"write_first_line"} =>
                files[FileOf(crashed_at)] = LeftByFailure
          /\ crash_stage \in {"get_channel_list", "replace_categories", "clean_filter"} =>
                files[FileOf(crashed_at)] =
                    << FirstLine(DATA_SETS[crashed_at].OUT_FILE_FIRST_LINE) >>
          /\ crash_stage = "write_first_line" => files[FileOf(crashed_at)] = << >>)
    /\ [][pc = "open" /\ pc' = "write_first_line" => files'[out_file_name] = << >>]_vars

\* The process has ended after the first data set failed in its loop with one
\* entry written, in a cycle later than one that completed the second data
\* set's playlist.
FailureLeavesWrittenWitness ==
    /\ pc = "terminated"
    /\ crashed_at = 1
    /\ crash_stage = "is_channel_allowed"
    /\ Len(files[FileOf(1)]) = 2
    /\ Len(files[FileOf(2)]) = 3

====
